---- MODULE Spec2Model ----
(***************************************************************************)
(* A model of lingio/object-storage: the typed CRUD store (querier) over   *)
(* CloudStorage, with the remote bucket as the shared state and one        *)
(* process per concurrent caller.                                          *)
(*                                                                         *)
(* Strings (keys, formats, object names, content types, bytes) are         *)
(* sequences of tokens; errors are chains of layers, outermost first.      *)
(***************************************************************************)
EXTENDS Integers, Sequences, FiniteSets, TLC

VARIABLES
    opts,      \* the options NewCloudStorage was called with
    cs,        \* the CloudStorage struct built by NewCloudStorage
    objects,   \* the remote bucket: object name -> stored object
    nextGen,   \* the service's generation counter (next generation to assign)
    pc,        \* per caller: "idle", "create" (WriteFile open), "put" (after Attrs)
    cur,       \* per caller: the call in flight
    last,      \* per caller: the call that returned last, and what it returned
    ops,       \* number of calls started so far
    faulted    \* whether a remote call has failed in transport so far

vars == <<opts, cs, objects, nextGen, pc, cur, last, ops, faulted>>

(***************************************************************************)
(* Bounds and domains                                                      *)
(***************************************************************************)
MaxOps == 3

Procs == {"p1", "p2"}

\* the key the callers work on, and a key no caller touches whose object
\* is in the bucket from the start
Keys == {<<"a/", "1">>}
BystanderKey == <<"b/", "1">>

\* T is float64: two encodable values and NaN, which json.Marshal rejects.
Val(n) == [nan |-> FALSE, n |-> n]
NaNVal == [nan |-> TRUE, n |-> 0]
Values == {Val(7), Val(12), NaNVal}

(***************************************************************************)
(* Errors: error chains and errors.Is                                      *)
(***************************************************************************)
ErrObjectNotFound == "ErrObjectNotFound"
ErrObjectNotExist == "storage.ErrObjectNotExist"
ErrPrecondition == "googleapi.Error 412"
ErrIO == "io failure"
ErrMarshal == "json.UnsupportedValueError"
ErrUnmarshal == "json.SyntaxError"

NilErr == <<>>

Layer(t, id, op, key, tag, cause) ==
    [t |-> t, id |-> id, op |-> op, key |-> key, tag |-> tag, cause |-> cause]

\* a sentinel or a library error value
Leaf(id) == <<Layer("leaf", id, "", <<>>, "", <<>>)>>

\* fmt.Errorf("<op> <key>: <tag>: %w", err)
Errorf(op, key, tag, err) == <<Layer("wrap", "", op, key, tag, <<>>)>> \o err

RECURSIVE ErrorsIs(_, _)
\* errors.Is(err, target) for a sentinel target: identity, then the layer's own
\* Is method (storageError.Is), then Unwrap.
ErrorsIs(err, target) ==
    IF err = NilErr THEN FALSE
    ELSE LET h == Head(err) IN
         CASE h.t = "leaf" -> h.id = target
           [] h.t = "storageError" ->
                \/ h.id = target                    \* s.mask == e
                \/ h.cause = Leaf(target)           \* s.cause == e
                \/ ErrorsIs(Leaf(h.id), target)     \* Unwrap() returns s.mask
           [] OTHER -> ErrorsIs(Tail(err), target)

\* &storageError{cause: err, mask: ErrObjectNotFound}
StorageError(cause, mask) == <<Layer("storageError", mask, "", <<>>, "", cause)>>

\* defective variants: no error is masked; every error is masked
wrapStorageErrorNever(err) == err
wrapStorageErrorAlways(err) ==
    IF err = NilErr THEN NilErr ELSE StorageError(err, ErrObjectNotFound)

wrapStorageError(err) ==
    IF ErrorsIs(err, ErrObjectNotExist)
    THEN StorageError(err, ErrObjectNotFound)
    ELSE err

(***************************************************************************)
(* encoding/json for T = float64                                           *)
(***************************************************************************)
DigitChars == <<"0", "1", "2", "3", "4", "5", "6", "7", "8", "9">>

RECURSIVE FormatNat(_)
FormatNat(n) ==
    IF n < 10 THEN <<DigitChars[n + 1]>>
    ELSE FormatNat(n \div 10) \o <<DigitChars[(n % 10) + 1]>>

IsDigit(c) == \E d \in 1..10 : DigitChars[d] = c

DigitOf(c) == (CHOOSE d \in 1..10 : DigitChars[d] = c) - 1

RECURSIVE ParseNat(_, _)
ParseNat(data, acc) ==
    IF data = <<>> THEN acc
    ELSE ParseNat(Tail(data), acc * 10 + DigitOf(Head(data)))

\* json.Marshal(&obj): the bytes, or an error for an unsupported value
Marshal(v) ==
    IF v.nan THEN [err |-> Leaf(ErrMarshal), data |-> <<>>]
    ELSE [err |-> NilErr, data |-> FormatNat(v.n)]

\* json.Unmarshal(data, &obj)
Unmarshal(data) ==
    IF data # <<>> /\ \A i \in 1..Len(data) : IsDigit(data[i])
    THEN [err |-> NilErr, obj |-> <<Val(ParseNat(data, 0))>>]
    ELSE [err |-> Leaf(ErrUnmarshal), obj |-> <<>>]

(***************************************************************************)
(* CloudStorage: construction, options, Filename                           *)
(***************************************************************************)
\* the struct's fields, in declaration order
CloudStorageFields == <<"client", "bucket", "contenttype", "filenameformat">>

\* the values of the unkeyed composite literal in NewCloudStorage, in order
CloudStorageLiteral ==
    <<<<"client">>, <<"bucket">>, <<"%s", ".json">>, <<"application/json">>>>

\* an unkeyed composite literal assigns its values to the fields in
\* declaration order
UnkeyedLiteral(fields, values) ==
    [f \in {fields[i] : i \in 1..Len(fields)} |->
        values[CHOOSE i \in 1..Len(fields) : fields[i] = f]]

WithFilenameFormat(s) == [opt |-> "WithFilenameFormat", s |-> s]
WithContentType(s) == [opt |-> "WithContentType", s |-> s]

\* Option.apply
Apply(o, c) ==
    IF o.opt = "WithFilenameFormat"
    THEN [c EXCEPT !.filenameformat = o.s]
    ELSE [c EXCEPT !.contenttype = o.s]

RECURSIVE ApplyAll(_, _)
ApplyAll(os, c) ==
    IF os = <<>> THEN c ELSE ApplyAll(Tail(os), Apply(Head(os), c))

NewCloudStorage(os) ==
    ApplyAll(os, UnkeyedLiteral(CloudStorageFields, CloudStorageLiteral))

RECURSIVE SprintfFrom(_, _, _)
\* fmt.Sprintf(format, arg) with one string operand: each %s verb consumes an
\* operand (a verb with none left prints %!s(MISSING)); an operand no verb
\* consumed is appended as %!(EXTRA string=<arg>).
SprintfFrom(format, arg, used) ==
    IF format = <<>>
    THEN IF used THEN <<>> ELSE <<"%!(EXTRA string=">> \o arg \o <<")">>
    ELSE IF Head(format) = "%s"
         THEN (IF used THEN <<"%!s(MISSING)">> ELSE arg)
              \o SprintfFrom(Tail(format), arg, TRUE)
         ELSE <<Head(format)>> \o SprintfFrom(Tail(format), arg, used)

Sprintf(format, arg) == SprintfFrom(format, arg, FALSE)

Filename(c, key) == Sprintf(c.filenameformat, key)

\* the option lists a store is constructed with
CustomFormat == <<"data/", "%s", ".bin">>
CustomContentType == <<"text/plain">>
OptionLists ==
    { <<>>,
      <<WithFilenameFormat(CustomFormat), WithContentType(CustomContentType)>> }

(***************************************************************************)
(* The remote bucket: conditional write, attributes, read, delete          *)
(***************************************************************************)
NoCondition == [kind |-> "none", generation |-> 0]
DoesNotExist == [kind |-> "DoesNotExist", generation |-> 0]
GenerationMatch(g) == [kind |-> "GenerationMatch", generation |-> g]

\* whether the service accepts a write to `name` under precondition `cond`
ConditionHolds(objs, name, cond) ==
    CASE cond.kind = "DoesNotExist" -> name \notin DOMAIN objs
      [] cond.kind = "GenerationMatch" ->
            name \in DOMAIN objs /\ objs[name].generation = cond.generation
      [] OTHER -> TRUE

\* the object a committed write stores. val, via and prev are bookkeeping:
\* the caller's value, the operation that wrote it, and the operation that
\* had written the object it replaced ("none" for a first write)
StoredObject(data, ct, gen, v, via) ==
    [data |-> data, contentType |-> ct, generation |-> gen, val |-> v,
     via |-> via, prev |-> "none"]

\* the bucket after writing object o at name
WithObject(objs, name, o) ==
    [n \in DOMAIN objs \cup {name} |->
        IF n = name
        THEN [o EXCEPT !.prev = IF name \in DOMAIN objs THEN objs[name].via ELSE "none"]
        ELSE objs[n]]

\* the bucket after deleting name
WithoutObject(objs, name) == [n \in DOMAIN objs \ {name} |-> objs[n]]

\* the generation currently stored at name, 0 for none
GenerationAt(objs, name) ==
    IF name \in DOMAIN objs THEN objs[name].generation ELSE 0

\* a conditional write of o at name: a transport failure and a failed
\* precondition both leave the bucket as it was
Write(objs, name, cond, o, fault) ==
    IF fault THEN [err |-> Leaf(ErrIO), objects |-> objs]
    ELSE IF ~ConditionHolds(objs, name, cond)
         THEN [err |-> Leaf(ErrPrecondition), objects |-> objs]
         ELSE [err |-> NilErr, objects |-> WithObject(objs, name, o)]

\* ObjectHandle.Attrs
Attrs(objs, name, fault) ==
    IF fault THEN [err |-> Leaf(ErrIO), generation |-> 0]
    ELSE IF name \notin DOMAIN objs
         THEN [err |-> Leaf(ErrObjectNotExist), generation |-> 0]
         ELSE [err |-> NilErr, generation |-> objs[name].generation]

(***************************************************************************)
(* CloudStorage.WriteFile and CloudStorage.GetFile                         *)
(***************************************************************************)
CopyFaults == {"none", "copy", "close"}
ReadFaults == {"none", "open", "read"}

\* defective variant: the handle carries no DoesNotExist precondition
WriteFileUnconditional(c, objs, key, data, gen, v, fault) ==
    IF fault = "copy" THEN [err |-> Leaf(ErrIO), objects |-> objs]
    ELSE Write(objs, Filename(c, key), NoCondition,
               StoredObject(data, c.contenttype, gen, v, "Create"),
               fault = "close")

\* WriteFile from io.Copy on: the writer was opened under DoesNotExist and is
\* stamped with the configured content type; Close commits.
WriteFile(c, objs, key, data, gen, v, fault) ==
    IF fault = "copy" THEN [err |-> Leaf(ErrIO), objects |-> objs]
    ELSE Write(objs, Filename(c, key), DoesNotExist,
               StoredObject(data, c.contenttype, gen, v, "Create"),
               fault = "close")

\* defective variant: the reader is opened on the key itself, not on Filename(key)
GetFileUnmapped(c, objs, key, fault) ==
    LET err == IF fault = "open" THEN Leaf(ErrIO)
               ELSE IF key \notin DOMAIN objs THEN Leaf(ErrObjectNotExist)
               ELSE NilErr
        err2 == wrapStorageError(err)
    IN  IF err2 # NilErr
        THEN [err |-> Errorf("Get", key, "", err2), data |-> <<>>]
        ELSE IF fault = "read"
             THEN [err |-> Errorf("Get", key, "readall", Leaf(ErrIO)), data |-> <<>>]
             ELSE [err |-> NilErr, data |-> objs[key].data]

GetFile(c, objs, key, fault) ==
    LET name == Filename(c, key)
        err == IF fault = "open" THEN Leaf(ErrIO)
               ELSE IF name \notin DOMAIN objs THEN Leaf(ErrObjectNotExist)
               ELSE NilErr
        err2 == wrapStorageError(err)
    IN  IF err2 # NilErr
        THEN [err |-> Errorf("Get", key, "", err2), data |-> <<>>]
        ELSE IF fault = "read"
             THEN [err |-> Errorf("Get", key, "readall", Leaf(ErrIO)), data |-> <<>>]
             ELSE [err |-> NilErr, data |-> objs[name].data]

(***************************************************************************)
(* querier: the calls and what they return                                 *)
(***************************************************************************)
NoValue == Val(0)

\* what a call returned: err (nil on success) and ret (Get's *T, <<>> for
\* nil). The rest is bookkeeping: began is the generation counter when the
\* call began, seen the generation the call found at the key at that time
\* (Put: the one Attrs returned; Get: the one it read).
Returned(op, key, val, err, ret, seen, began) ==
    [op |-> op, key |-> key, val |-> val, err |-> err,
     ret |-> ret, seen |-> seen, began |-> began]

NoCall == Returned("none", <<>>, NoValue, NilErr, <<>>, 0, 0)

\* a call in flight: a Create with WriteFile's writer open, or a Put after
\* Attrs. cond is the precondition the handle carries; basis is the
\* generation the caller's preceding call, if a Get of the same key, had read.
InFlight(op, key, val, data, cond, seen, began, basis) ==
    [op |-> op, key |-> key, val |-> val, data |-> data,
     cond |-> cond, seen |-> seen, began |-> began, basis |-> basis]

NoFlight == InFlight("none", <<>>, NoValue, <<>>, NoCondition, 0, 0, 0)

\* the generation the caller's last call, if a successful Get of key, read
BasisOf(l, key) ==
    IF l.op = "Get" /\ l.err = NilErr /\ l.key = key THEN l.seen ELSE 0

\* defective variant: a value that fails to decode is returned as the zero value
QuerierGetDecodeIgnored(c, objs, key, fault) ==
    LET f == GetFile(c, objs, key, fault) IN
    IF f.err # NilErr
    THEN [err |-> Errorf("Get", key, "readall", f.err), obj |-> <<>>]
    ELSE LET u == Unmarshal(f.data) IN
         [err |-> NilErr, obj |-> IF u.err # NilErr THEN <<NoValue>> ELSE u.obj]

\* querier.Get
QuerierGet(c, objs, key, fault) ==
    LET f == GetFile(c, objs, key, fault) IN
    IF f.err # NilErr
    THEN [err |-> Errorf("Get", key, "readall", f.err), obj |-> <<>>]
    ELSE LET u == Unmarshal(f.data) IN
         IF u.err # NilErr
         THEN [err |-> Errorf("Get", key, "", u.err), obj |-> <<>>]
         ELSE [err |-> NilErr, obj |-> u.obj]

\* defective variants: the handle If returns is dropped; the precondition is set
\* whatever Attrs returned
PutConditionDropped(a) == NoCondition
PutConditionAlways(a) == GenerationMatch(a.generation)

\* the precondition Put scopes its handle with after Attrs returned a
PutCondition(a) ==
    IF a.err = NilErr THEN GenerationMatch(a.generation) ELSE NoCondition

\* defective variant: the error of Close is not returned
PutWriteIgnoringClose(c, objs, key, v, cond, gen, fault) ==
    LET m == Marshal(v) IN
    IF m.err # NilErr
    THEN [err |-> Errorf("Put", key, "", m.err), objects |-> objs]
    ELSE IF fault = "copy"
         THEN [err |-> Errorf("Put", key, "copy", Leaf(ErrIO)), objects |-> objs]
         ELSE [err |-> NilErr,
               objects |-> Write(objs, Filename(c, key), cond,
                                 StoredObject(m.data, <<"application/json">>, gen, v, "Put"),
                                 fault = "close").objects]

\* defective variant: after a failed precondition the write is made again with
\* no precondition
PutWriteRetrying(c, objs, key, v, cond, gen, fault) ==
    LET m == Marshal(v) IN
    IF m.err # NilErr
    THEN [err |-> Errorf("Put", key, "", m.err), objects |-> objs]
    ELSE IF fault = "copy"
         THEN [err |-> Errorf("Put", key, "copy", Leaf(ErrIO)), objects |-> objs]
         ELSE LET o == StoredObject(m.data, <<"application/json">>, gen, v, "Put")
                  w == Write(objs, Filename(c, key), cond, o, fault = "close")
              IN  IF ErrorsIs(w.err, ErrPrecondition)
                  THEN Write(objs, Filename(c, key), NoCondition, o, FALSE)
                  ELSE IF w.err # NilErr
                       THEN [err |-> Errorf("Put", key, "Close", w.err), objects |-> objs]
                       ELSE w

\* defective variant: Close is deferred, so it also runs, and commits, when
\* io.Copy failed
PutWriteDeferredClose(c, objs, key, v, cond, gen, fault) ==
    LET m == Marshal(v) IN
    IF m.err # NilErr
    THEN [err |-> Errorf("Put", key, "", m.err), objects |-> objs]
    ELSE LET w == Write(objs, Filename(c, key), cond,
                        StoredObject(m.data, <<"application/json">>, gen, v, "Put"),
                        fault = "close")
         IN  IF fault = "copy"
             THEN [err |-> Errorf("Put", key, "copy", Leaf(ErrIO)), objects |-> w.objects]
             ELSE IF w.err # NilErr
                  THEN [err |-> Errorf("Put", key, "Close", w.err), objects |-> objs]
                  ELSE w

\* querier.Put from json.Marshal on: the writer was opened on the handle
\* Attrs scoped and is stamped application/json; Close commits.
PutWrite(c, objs, key, v, cond, gen, fault) ==
    LET m == Marshal(v) IN
    IF m.err # NilErr
    THEN [err |-> Errorf("Put", key, "", m.err), objects |-> objs]
    ELSE IF fault = "copy"
         THEN [err |-> Errorf("Put", key, "copy", Leaf(ErrIO)), objects |-> objs]
         ELSE LET w == Write(objs, Filename(c, key), cond,
                             StoredObject(m.data, <<"application/json">>, gen, v, "Put"),
                             fault = "close")
              IN  IF w.err # NilErr
                  THEN [err |-> Errorf("Put", key, "Close", w.err), objects |-> objs]
                  ELSE w

\* defective variant: the handle deleted is the one of the key itself, and its
\* not-found error is dropped
QuerierDeleteUnmapped(c, objs, key, fault) ==
    IF fault THEN [err |-> Errorf("Delete", key, "", Leaf(ErrIO)), objects |-> objs]
    ELSE [err |-> NilErr, objects |-> WithoutObject(objs, key)]

\* querier.Delete
QuerierDelete(c, objs, key, fault) ==
    LET name == Filename(c, key)
        err == IF fault THEN Leaf(ErrIO)
               ELSE IF name \notin DOMAIN objs THEN Leaf(ErrObjectNotExist)
               ELSE NilErr
        err2 == wrapStorageError(err)
    IN  IF err2 # NilErr
        THEN [err |-> Errorf("Delete", key, "", err2), objects |-> objs]
        ELSE IF err # NilErr
             THEN [err |-> Errorf("Delete", key, "", err), objects |-> objs]
             ELSE [err |-> NilErr, objects |-> WithoutObject(objs, name)]

(***************************************************************************)
(* The state machine                                                       *)
(***************************************************************************)
\* the bucket a store is opened on: earlier Creates left an object at the
\* bystander key and at each of the keys in held
EmptyBucket == [n \in {} |-> n]
InitialValue == Val(3)
InitialGen == Cardinality(Keys \cup {BystanderKey}) + 1

RECURSIVE CreatedAt(_, _, _, _)
CreatedAt(c, objs, keys, gen) ==
    IF keys = {} THEN objs
    ELSE LET k == CHOOSE x \in keys : TRUE IN
         CreatedAt(c,
                   WriteFile(c, objs, k, Marshal(InitialValue).data, gen,
                             InitialValue, "none").objects,
                   keys \ {k}, gen + 1)

InitialObjects(c, held) == CreatedAt(c, EmptyBucket, held \cup {BystanderKey}, 1)

Init ==
    /\ opts \in OptionLists
    /\ cs = NewCloudStorage(opts)
    /\ \E held \in SUBSET Keys : objects = InitialObjects(cs, held)
    /\ nextGen = InitialGen
    /\ pc = [p \in Procs |-> "idle"]
    /\ cur = [p \in Procs |-> NoFlight]
    /\ last = [p \in Procs |-> NoCall]
    /\ ops = 0
    /\ faulted = FALSE

\* a remote call may fail in transport; a run has at most one such failure
Inject(failed) ==
    /\ failed => ~faulted
    /\ faulted' = (faulted \/ failed)

\* the generation counter advances on every committed write
Advance(err) == IF err = NilErr THEN nextGen + 1 ELSE nextGen

\* Create up to the open writer: Marshal, then WriteFile's handle and writer
Create(p, key, v) ==
    /\ pc[p] = "idle"
    /\ ops < MaxOps
    /\ ops' = ops + 1
    /\ LET m == Marshal(v)
           seen == GenerationAt(objects, Filename(cs, key))
       IN  IF m.err # NilErr
           THEN /\ last' = [last EXCEPT ![p] =
                        Returned("Create", key, v, m.err, <<>>, seen, nextGen)]
                /\ UNCHANGED <<pc, cur>>
           ELSE /\ pc' = [pc EXCEPT ![p] = "create"]
                /\ cur' = [cur EXCEPT ![p] =
                        InFlight("Create", key, v, m.data, DoesNotExist,
                                 seen, nextGen, 0)]
                /\ UNCHANGED last
    /\ UNCHANGED <<opts, cs, objects, nextGen, faulted>>

\* WriteFile's io.Copy and Close, and Create's return
CreateCommit(p, fault) ==
    /\ pc[p] = "create"
    /\ Inject(fault # "none")
    /\ LET c == cur[p]
           w == WriteFile(cs, objects, c.key, c.data, nextGen, c.val, fault)
       IN  /\ objects' = w.objects
           /\ nextGen' = Advance(w.err)
           /\ last' = [last EXCEPT ![p] =
                   Returned("Create", c.key, c.val, w.err, <<>>, c.seen, c.began)]
    /\ pc' = [pc EXCEPT ![p] = "idle"]
    /\ cur' = [cur EXCEPT ![p] = NoFlight]
    /\ UNCHANGED <<opts, cs, ops>>

Get(p, key, fault) ==
    /\ pc[p] = "idle"
    /\ ops < MaxOps
    /\ Inject(fault # "none")
    /\ ops' = ops + 1
    /\ LET g == QuerierGet(cs, objects, key, fault)
           seen == IF g.err = NilErr
                   THEN GenerationAt(objects, Filename(cs, key)) ELSE 0
       IN  last' = [last EXCEPT ![p] =
               Returned("Get", key, NoValue, g.err, g.obj, seen, nextGen)]
    /\ UNCHANGED <<opts, cs, objects, nextGen, pc, cur>>

\* Put up to the open writer: the handle, Attrs, the precondition, NewWriter
Put(p, key, v, fault) ==
    /\ pc[p] = "idle"
    /\ ops < MaxOps
    /\ Inject(fault)
    /\ ops' = ops + 1
    /\ LET a == Attrs(objects, Filename(cs, key), fault)
           basis == BasisOf(last[p], key)
       IN  IF a.err # NilErr /\ ~ErrorsIs(a.err, ErrObjectNotExist)
           THEN /\ last' = [last EXCEPT ![p] =
                        Returned("Put", key, v,
                                 Errorf("Put", key, "Attrs", a.err), <<>>, 0, nextGen)]
                /\ UNCHANGED <<pc, cur>>
           ELSE /\ pc' = [pc EXCEPT ![p] = "put"]
                /\ cur' = [cur EXCEPT ![p] =
                        InFlight("Put", key, v, <<>>,
                                 PutCondition(a), a.generation, nextGen, basis)]
                /\ UNCHANGED last
    /\ UNCHANGED <<opts, cs, objects, nextGen>>

\* Put's Marshal, io.Copy and Close, and its return
PutCommit(p, fault) ==
    /\ pc[p] = "put"
    /\ Inject(fault # "none")
    /\ LET c == cur[p]
           w == PutWrite(cs, objects, c.key, c.val, c.cond, nextGen, fault)
       IN  /\ objects' = w.objects
           /\ nextGen' = Advance(w.err)
           /\ last' = [last EXCEPT ![p] =
                   Returned("Put", c.key, c.val, w.err, <<>>, c.seen, c.began)]
    /\ pc' = [pc EXCEPT ![p] = "idle"]
    /\ cur' = [cur EXCEPT ![p] = NoFlight]
    /\ UNCHANGED <<opts, cs, ops>>

Delete(p, key, fault) ==
    /\ pc[p] = "idle"
    /\ ops < MaxOps
    /\ Inject(fault)
    /\ ops' = ops + 1
    /\ LET d == QuerierDelete(cs, objects, key, fault)
       IN  /\ objects' = d.objects
           /\ last' = [last EXCEPT ![p] =
                   Returned("Delete", key, NoValue, d.err, <<>>,
                            GenerationAt(objects, Filename(cs, key)), nextGen)]
    /\ UNCHANGED <<opts, cs, nextGen, pc, cur>>

Next ==
    \/ \E p \in Procs, k \in Keys, v \in Values : Create(p, k, v)
    \/ \E p \in Procs, f \in CopyFaults : CreateCommit(p, f)
    \/ \E p \in Procs, k \in Keys, f \in ReadFaults : Get(p, k, f)
    \/ \E p \in Procs, k \in Keys, v \in Values, f \in BOOLEAN : Put(p, k, v, f)
    \/ \E p \in Procs, f \in CopyFaults : PutCommit(p, f)
    \/ \E p \in Procs, k \in Keys, f \in BOOLEAN : Delete(p, k, f)

Spec == Init /\ [][Next]_vars

(***************************************************************************)
(* Vocabulary of the properties                                            *)
(***************************************************************************)
Name(key) == Filename(cs, key)

Succeeded(l) == l.err = NilErr

\* the call failed in transport, or could not encode its value
TransportFailed(l) == ErrorsIs(l.err, ErrIO)
EncodeFailed(l) == ErrorsIs(l.err, ErrMarshal)
Conflicted(l) == ErrorsIs(l.err, ErrPrecondition)

\* caller p's Create (its WriteFile) or Put returns in this step
CreateReturns(p) == pc[p] = "create" /\ pc'[p] = "idle"
PutReturns(p) == pc[p] = "put" /\ pc'[p] = "idle"
\* caller p's Get or Delete runs in this step
GetReturns(p) == last'[p] # last[p] /\ last'[p].op = "Get"
DeleteReturns(p) == last'[p] # last[p] /\ last'[p].op = "Delete"

\* the step changes no object but the one at name
OthersUnchanged(name) ==
    /\ DOMAIN objects' \ {name} = DOMAIN objects \ {name}
    /\ \A n \in DOMAIN objects \ {name} : objects'[n] = objects[n]

\* both callers' last calls are Puts of one key whose Attrs returned the same
\* generation of an object
RacedPuts(p, q) ==
    /\ p # q
    /\ last[p].op = "Put" /\ last[q].op = "Put"
    /\ last[p].key = last[q].key
    /\ last[p].seen # 0 /\ last[p].seen = last[q].seen

(***************************************************************************)
(* C1: of two Puts to the same existing key whose Attrs both returned      *)
(* generation g, never both commit; when neither fails in transport or in  *)
(* encoding, exactly one returns nil and the stored object is the one it   *)
(* wrote, the other returns an error.                                      *)
(***************************************************************************)
C1_RacingPutsOneCommits ==
    \A p, q \in Procs :
        RacedPuts(p, q) =>
            /\ ~(Succeeded(last[p]) /\ Succeeded(last[q]))
            /\ (\A r \in {p, q} : ~TransportFailed(last[r]) /\ ~EncodeFailed(last[r]))
                => \E w \in {p, q} :
                      /\ Succeeded(last[w])
                      /\ \A r \in {p, q} \ {w} : ~Succeeded(last[r])
                      /\ Name(last[w].key) \in DOMAIN objects
                      /\ objects[Name(last[w].key)].val = last[w].val
                      /\ objects[Name(last[w].key)].via = "Put"
                      /\ objects[Name(last[w].key)].generation > last[w].seen

C1_Witness ==
    \E p, q \in Procs :
        /\ RacedPuts(p, q)
        /\ Succeeded(last[p])
        /\ Conflicted(last[q])
        /\ last[p].val # last[q].val
        /\ objects[Name(last[p].key)].val = last[p].val

(***************************************************************************)
(* C2: a Put by a caller whose preceding call was a Get of the same key    *)
(* fails, and changes nothing, when the object now stored was written by   *)
(* a Put after that Get (its generation is not the one the Get read) and   *)
(* holds another value than the caller's.                                  *)
(***************************************************************************)
C2_NoLostUpdateAfterGet ==
    [][\A p \in Procs :
          (/\ PutReturns(p)
           /\ cur[p].basis # 0
           /\ Name(cur[p].key) \in DOMAIN objects
           /\ objects[Name(cur[p].key)].generation # cur[p].basis
           /\ objects[Name(cur[p].key)].via = "Put"
           /\ objects[Name(cur[p].key)].val # cur[p].val)
          => (last'[p].err # NilErr /\ objects' = objects)]_vars

(***************************************************************************)
(* C3: a Create on a key that holds no object returns nil (unless it fails *)
(* in transport) and stores the value; a Get that reads an object a Create *)
(* stored returns nil and a value equal to the one that Create was given.  *)
(***************************************************************************)
C3_CreateGetRoundTrip ==
    [][\A p \in Procs :
          /\ (/\ CreateReturns(p)
              /\ Name(cur[p].key) \notin DOMAIN objects
              /\ ~TransportFailed(last'[p]))
             => /\ Succeeded(last'[p])
                /\ Name(cur[p].key) \in DOMAIN objects'
                /\ objects'[Name(cur[p].key)].val = cur[p].val
                /\ objects'[Name(cur[p].key)].via = "Create"
          /\ (/\ GetReturns(p)
              /\ Name(last'[p].key) \in DOMAIN objects
              /\ objects[Name(last'[p].key)].via = "Create"
              /\ ~TransportFailed(last'[p]))
             => /\ Succeeded(last'[p])
                /\ last'[p].ret = <<objects[Name(last'[p].key)].val>>]_vars

C3_Witness ==
    \E p \in Procs :
        /\ last[p].op = "Get"
        /\ Succeeded(last[p])
        /\ last[p].ret = <<Val(12)>>
        /\ last[p].seen >= InitialGen
        /\ Name(last[p].key) \in DOMAIN objects
        /\ objects[Name(last[p].key)].generation = last[p].seen
        /\ objects[Name(last[p].key)].via = "Create"
        /\ objects[Name(last[p].key)].val = Val(12)

\* both callers' last calls are Creates of one key that began on the absent
\* key with no write committed between their beginnings, and neither failed
\* in transport or in encoding
RacedCreates(p, q) ==
    /\ p # q
    /\ last[p].op = "Create" /\ last[q].op = "Create"
    /\ last[p].key = last[q].key
    /\ last[p].seen = 0 /\ last[q].seen = 0
    /\ last[p].began = last[q].began
    /\ \A r \in {p, q} : ~TransportFailed(last[r]) /\ ~EncodeFailed(last[r])

(***************************************************************************)
(* C4: a Create whose key holds an object when its write is finalized      *)
(* returns an error and changes nothing; one whose key holds none then     *)
(* returns nil (unless it fails in transport) and changes that key only.   *)
(* Of two Creates that both began on the absent key with no write between  *)
(* their beginnings, exactly one returns nil unless one fails in transport.*)
(***************************************************************************)
C4_CreateOnlyIfAbsent ==
    [][/\ \A p \in Procs :
            CreateReturns(p) =>
                IF Name(cur[p].key) \in DOMAIN objects
                THEN last'[p].err # NilErr /\ objects' = objects
                ELSE /\ ~TransportFailed(last'[p]) => Succeeded(last'[p])
                     /\ Succeeded(last'[p]) =>
                            objects'[Name(cur[p].key)].generation = nextGen
                     /\ ~Succeeded(last'[p]) => objects' = objects
                     /\ OthersUnchanged(Name(cur[p].key))
       /\ \A p, q \in Procs :
            RacedCreates(p, q)' =>
                (Succeeded(last'[p]) # Succeeded(last'[q]))]_vars

C4_Witness ==
    \E p, q \in Procs :
        /\ RacedCreates(p, q)
        /\ Succeeded(last[p])
        /\ Conflicted(last[q])
        /\ last[p].val # last[q].val
        /\ objects[Name(last[p].key)].val = last[p].val

(***************************************************************************)
(* C5: a Get on a key that holds no object returns no value and an error   *)
(* for which errors.Is(err, ErrObjectNotFound) holds (unless the read      *)
(* failed in transport).                                                   *)
(***************************************************************************)
C5_GetAbsentIsNotFound ==
    [][\A p \in Procs :
          (/\ GetReturns(p)
           /\ Name(last'[p].key) \notin DOMAIN objects
           /\ ~TransportFailed(last'[p]))
          => /\ last'[p].ret = <<>>
             /\ ErrorsIs(last'[p].err, ErrObjectNotFound)]_vars

C5_Witness ==
    \E p \in Procs :
        /\ last[p].op = "Get"
        /\ Name(last[p].key) \notin DOMAIN objects
        /\ last[p].ret = <<>>
        /\ ErrorsIs(last[p].err, ErrObjectNotFound)
        /\ Len(last[p].err) = 3

(***************************************************************************)
(* C6: a Put during which no other write or delete reaches the key (the    *)
(* key holds at Close what Attrs found) returns nil and stores its value,  *)
(* on an absent key as on a held one, unless it fails in transport or in   *)
(* encoding; a Get that reads an object a Put stored returns that value.   *)
(***************************************************************************)
C6_SequentialPutLastWins ==
    [][\A p \in Procs :
          /\ (/\ PutReturns(p)
              /\ GenerationAt(objects, Name(cur[p].key)) = cur[p].seen
              /\ ~TransportFailed(last'[p])
              /\ ~EncodeFailed(last'[p]))
             => /\ Succeeded(last'[p])
                /\ objects'[Name(cur[p].key)].val = cur[p].val
                /\ objects'[Name(cur[p].key)].via = "Put"
                /\ objects'[Name(cur[p].key)].generation = nextGen
          /\ (/\ GetReturns(p)
              /\ Name(last'[p].key) \in DOMAIN objects
              /\ objects[Name(last'[p].key)].via = "Put"
              /\ ~TransportFailed(last'[p]))
             => /\ Succeeded(last'[p])
                /\ last'[p].ret = <<objects[Name(last'[p].key)].val>>]_vars

\* a Get returns the value of the second of two Puts
C6_Witness ==
    \E p \in Procs :
        /\ last[p].op = "Get"
        /\ Succeeded(last[p])
        /\ last[p].ret = <<Val(12)>>
        /\ Name(last[p].key) \in DOMAIN objects
        /\ objects[Name(last[p].key)].generation = last[p].seen
        /\ objects[Name(last[p].key)].via = "Put"
        /\ objects[Name(last[p].key)].prev = "Put"

\* a Delete of key returned nil and no write has been committed since
Deleted(key) ==
    \E d \in Procs :
        /\ last[d].op = "Delete"
        /\ last[d].key = key
        /\ Succeeded(last[d])
        /\ last[d].began = nextGen

(***************************************************************************)
(* C7: once a Delete of a held key has returned nil and no write has been  *)
(* committed since, the key holds no object, a Get of it returns an error  *)
(* matching ErrObjectNotFound and a Create of it returns nil (unless they  *)
(* fail in transport).                                                     *)
(***************************************************************************)
C7_DeletedIsGone ==
    [][/\ \A k \in Keys : Deleted(k)' => Name(k) \notin DOMAIN objects'
       /\ \A p \in Procs :
            /\ (/\ GetReturns(p)
                /\ Deleted(last'[p].key)
                /\ ~TransportFailed(last'[p]))
               => /\ last'[p].ret = <<>>
                  /\ ErrorsIs(last'[p].err, ErrObjectNotFound)
            /\ (/\ CreateReturns(p)
                /\ Deleted(cur[p].key)
                /\ ~TransportFailed(last'[p]))
               => /\ Succeeded(last'[p])
                  /\ Name(cur[p].key) \in DOMAIN objects']_vars

\* a Delete removed the object and a later Get found none
C7_Witness ==
    \E p, q \in Procs :
        /\ last[p].op = "Delete"
        /\ Succeeded(last[p])
        /\ last[p].seen # 0
        /\ last[q].op = "Get"
        /\ last[q].key = last[p].key
        /\ last[q].began = last[p].began
        /\ ErrorsIs(last[q].err, ErrObjectNotFound)
        /\ Name(last[p].key) \notin DOMAIN objects

(***************************************************************************)
(* C8: a Delete on a key that holds no object returns an error matching    *)
(* ErrObjectNotFound and matching neither a transport failure nor a failed *)
(* precondition, and changes no object; a Delete that fails in transport   *)
(* returns an error that does not match ErrObjectNotFound.                 *)
(***************************************************************************)
C8_DeleteAbsentIsNotFound ==
    [][\A p \in Procs :
          DeleteReturns(p) =>
              /\ (faulted' = faulted /\ Name(last'[p].key) \notin DOMAIN objects)
                 => /\ ErrorsIs(last'[p].err, ErrObjectNotFound)
                    /\ ~ErrorsIs(last'[p].err, ErrIO)
                    /\ ~ErrorsIs(last'[p].err, ErrPrecondition)
                    /\ objects' = objects
              /\ (faulted' # faulted)
                 => /\ last'[p].err # NilErr
                    /\ ~ErrorsIs(last'[p].err, ErrObjectNotFound)
                    /\ ErrorsIs(last'[p].err, ErrIO)
                    /\ objects' = objects]_vars

C8_Witness ==
    \E p \in Procs :
        /\ last[p].op = "Delete"
        /\ last[p].seen = 0
        /\ ErrorsIs(last[p].err, ErrObjectNotFound)
        /\ Name(last[p].key) \notin DOMAIN objects

(***************************************************************************)
(* C9: a Put whose generation precondition no longer holds when its write  *)
(* is finalized returns, in that step and without a further attempt, an    *)
(* error that wraps the service's failed-precondition error, matches       *)
(* neither ErrObjectNotFound nor a transport failure, and stores nothing.  *)
(***************************************************************************)
C9_LostRaceIsConflict ==
    [][\A p \in Procs :
          (/\ PutReturns(p)
           /\ cur[p].cond.kind = "GenerationMatch"
           /\ GenerationAt(objects, Name(cur[p].key)) # cur[p].cond.generation
           /\ faulted' = faulted
           /\ ~EncodeFailed(last'[p]))
          => /\ last'[p].err # NilErr
             /\ ErrorsIs(last'[p].err, ErrPrecondition)
             /\ ~ErrorsIs(last'[p].err, ErrObjectNotFound)
             /\ ~ErrorsIs(last'[p].err, ErrIO)
             /\ objects' = objects
             /\ ops' = ops]_vars

C9_Witness ==
    \E p \in Procs :
        /\ last[p].op = "Put"
        /\ last[p].seen # 0
        /\ Conflicted(last[p])
        /\ ~ErrorsIs(last[p].err, ErrObjectNotFound)
        /\ GenerationAt(objects, Name(last[p].key)) > last[p].seen

(***************************************************************************)
(* C10: a store constructed with no options has filename format "%s.json"  *)
(* and content type "application/json": Filename(k) is k followed by       *)
(* ".json", and the objects its Creates store carry "application/json".    *)
(***************************************************************************)
C10_DocumentedDefaults ==
    opts = <<>> =>
        /\ cs.filenameformat = <<"%s", ".json">>
        /\ cs.contenttype = <<"application/json">>
        /\ \A k \in Keys \cup {BystanderKey} : Filename(cs, k) = k \o <<".json">>
        /\ \A n \in DOMAIN objects :
              objects[n].via = "Create" => objects[n].contentType = <<"application/json">>

(***************************************************************************)
(* Listing and reading a bucket of several keys                           *)
(***************************************************************************)
MaxListOps == 2

ListKeys == {<<"a/", "1">>, <<"a/", "2">>, BystanderKey}
Prefixes == {<<>>, <<"a/">>, <<"b/">>, <<"a/", "1">>}

\* strings.HasPrefix
HasPrefix(s, prefix) ==
    Len(prefix) <= Len(s) /\ SubSeq(s, 1, Len(prefix)) = prefix

RECURSIVE Enumerate(_)
\* one traversal of an iterator over the names in `names`: each name once
Enumerate(names) ==
    IF names = {} THEN <<>>
    ELSE LET n == CHOOSE x \in names : TRUE IN <<n>> \o Enumerate(names \ {n})

\* BucketHandle.Objects(ctx, &storage.Query{Prefix: prefix}): the objects
\* whose names begin with prefix
Objects(objs, prefix) == Enumerate({n \in DOMAIN objs : HasPrefix(n, prefix)})

\* querier.List: the prefix goes to the bucket as the caller gave it
QuerierList(c, objs, prefix) == Objects(objs, prefix)

\* bytes another program stored that json.Unmarshal into T rejects
CorruptData == {<<>>, <<"{">>, <<"1", "x">>}

\* the bucket with an object of another program at the name of `key`
WithForeign(c, objs, key, data, gen) ==
    WithObject(objs, Filename(c, key),
               StoredObject(data, <<"application/octet-stream">>, gen, NoValue, "foreign"))

\* a store opened on a bucket holding the bystander, the objects earlier
\* Creates left at some of the other keys, and possibly one foreign object
ListInit ==
    /\ opts \in OptionLists
    /\ cs = NewCloudStorage(opts)
    /\ \E held \in SUBSET (ListKeys \ {BystanderKey}) :
          \/ objects = InitialObjects(cs, held)
          \/ \E k \in ListKeys \ (held \cup {BystanderKey}), d \in CorruptData :
                objects = WithForeign(cs, InitialObjects(cs, held), k, d,
                                      Cardinality(held) + 2)
    /\ nextGen = Cardinality(ListKeys) + 1
    /\ pc = [p \in Procs |-> "idle"]
    /\ cur = [p \in Procs |-> NoFlight]
    /\ last = [p \in Procs |-> NoCall]
    /\ ops = 0
    /\ faulted = FALSE

\* querier.List and one full traversal of the iterator it returns
List(p, prefix) ==
    /\ pc[p] = "idle"
    /\ ops < MaxOps
    /\ ops' = ops + 1
    /\ last' = [last EXCEPT ![p] =
            Returned("List", prefix, NoValue, NilErr,
                     QuerierList(cs, objects, prefix), 0, nextGen)]
    /\ UNCHANGED <<opts, cs, objects, nextGen, pc, cur, faulted>>

\* the calls of a run on the bucket of several keys
ListNext ==
    \/ \E p \in Procs, prefix \in Prefixes : ops < MaxListOps /\ List(p, prefix)
    \/ \E p \in Procs, k \in ListKeys : ops < MaxListOps /\ Create(p, k, Val(7))
    \/ \E p \in Procs : CreateCommit(p, "none")
    \/ \E p \in Procs, k \in ListKeys, f \in ReadFaults :
          ops < MaxListOps /\ Get(p, k, f)
    \/ \E p \in Procs, k \in ListKeys : ops < MaxListOps /\ Delete(p, k, FALSE)

ListSpec == ListInit /\ [][ListNext]_vars

\* the names of the stored objects whose keys begin with prefix
StoredUnder(prefix) ==
    {Name(k) : k \in {x \in ListKeys : HasPrefix(x, prefix) /\ Name(x) \in DOMAIN objects}}

\* the set of the elements of a sequence
Range(s) == {s[i] : i \in 1..Len(s)}

(***************************************************************************)
(* C11: the traversal of List(prefix) yields the objects of exactly the    *)
(* stored keys that begin with prefix, each once, whatever the filename    *)
(* format of the store.                                                    *)
(***************************************************************************)
C11_ListYieldsKeysUnderPrefix ==
    [][\A p \in Procs, prefix \in Prefixes :
          List(p, prefix) =>
              /\ Range(last'[p].ret) = StoredUnder(prefix)
              /\ Len(last'[p].ret) = Cardinality(StoredUnder(prefix))]_vars

\* the bytes stored at name decode into no value of T
Undecodable(name) ==
    /\ name \in DOMAIN objects
    /\ objects[name].data \in CorruptData

(***************************************************************************)
(* C12: a Get of a key whose stored bytes are not the JSON encoding of a   *)
(* value of T returns (unless the read fails in transport) no value and an *)
(* error that wraps the decoder's error and matches neither                *)
(* ErrObjectNotFound nor a failed precondition, and changes no object.     *)
(***************************************************************************)
C12_CorruptBytesAreDecodeError ==
    [][\A p \in Procs :
          (/\ GetReturns(p)
           /\ Undecodable(Name(last'[p].key))
           /\ ~TransportFailed(last'[p]))
          => /\ last'[p].ret = <<>>
             /\ last'[p].err # NilErr
             /\ ErrorsIs(last'[p].err, ErrUnmarshal)
             /\ ~ErrorsIs(last'[p].err, ErrObjectNotFound)
             /\ ~ErrorsIs(last'[p].err, ErrObjectNotExist)
             /\ ~ErrorsIs(last'[p].err, ErrPrecondition)
             /\ objects' = objects]_vars

\* a Get found bytes that do not decode, and they are still stored
C12_Witness ==
    \E p \in Procs :
        /\ last[p].op = "Get"
        /\ Undecodable(Name(last[p].key))
        /\ objects[Name(last[p].key)].data = <<"1", "x">>
        /\ ErrorsIs(last[p].err, ErrUnmarshal)
        /\ last[p].ret = <<>>

\* some layer of the chain is fmt.Errorf's "<op> <key>: ..." wrapping
NamesCall(err, op, key) ==
    \E i \in 1..Len(err) :
        err[i].t = "wrap" /\ err[i].op = op /\ err[i].key = key

\* the chain still matches the sentinel or library error it began with
KindMatchable(err) ==
    \E id \in {ErrObjectNotFound, ErrPrecondition, ErrIO, ErrMarshal, ErrUnmarshal} :
        ErrorsIs(err, id)

(***************************************************************************)
(* C13: every error a Create, Get, Put or Delete returned carries the name *)
(* of that operation and its key in a wrapping layer, and still matches    *)
(* the kind of the failure underneath.                                     *)
(***************************************************************************)
C13_ErrorsNameOperationAndKey ==
    \A p \in Procs :
        (last[p].op \in {"Create", "Get", "Put", "Delete"} /\ last[p].err # NilErr)
        => /\ NamesCall(last[p].err, last[p].op, last[p].key)
           /\ KindMatchable(last[p].err)

(***************************************************************************)
(* wrapStorageError over error chains                                      *)
(***************************************************************************)
\* the sentinel and library errors a chain ends in
ErrorLeaves ==
    {ErrObjectNotExist, ErrObjectNotFound, ErrPrecondition, ErrIO, ErrUnmarshal}

\* the errors of es each wrapped once more with %w, as a library or a caller
\* does before the error reaches wrapStorageError
WrappedOnce(es) ==
    {Errorf(op, <<>>, "", e) : op \in {"storage", "retry"}, e \in es}

\* nil, the bare errors, and the chains of one and two wrappings over them
ErrorChains ==
    LET bare == {Leaf(id) : id \in ErrorLeaves}
        once == WrappedOnce(bare)
    IN  {NilErr} \cup bare \cup once \cup WrappedOnce(once)

\* a call of wrapStorageError: its argument and what it returned
Masked(arg, err) == [op |-> "wrapStorageError", arg |-> arg, err |-> err]

Mask(p, err) ==
    /\ last' = [last EXCEPT ![p] = Masked(err, wrapStorageError(err))]
    /\ UNCHANGED <<opts, cs, objects, nextGen, pc, cur, ops, faulted>>

MaskNext == \E p \in Procs, err \in ErrorChains : Mask(p, err)

MaskSpec == Init /\ [][MaskNext]_vars

(***************************************************************************)
(* C14: for an error that matches storage.ErrObjectNotExist, bare or under *)
(* wrappings, wrapStorageError returns an error for which errors.Is holds  *)
(* against ErrObjectNotFound and against storage.ErrObjectNotExist; any    *)
(* other error, nil included, is returned as it is.                        *)
(***************************************************************************)
C14_MaskMatchesSentinelAndCause ==
    \A p \in Procs :
        last[p].op = "wrapStorageError" =>
            IF ErrorsIs(last[p].arg, ErrObjectNotExist)
            THEN /\ ErrorsIs(last[p].err, ErrObjectNotFound)
                 /\ ErrorsIs(last[p].err, ErrObjectNotExist)
            ELSE last[p].err = last[p].arg

(***************************************************************************)
(* C15: a Put whose Attrs found an object at generation g commits only if  *)
(* the key still holds generation g when the write is finalized. If the    *)
(* object was deleted, or deleted and created again, in between, the Put   *)
(* returns an error and stores nothing: the key stays absent, or keeps the *)
(* new object. Every committed write gets a generation above all earlier   *)
(* ones, so a re-created object never carries g again.                     *)
(***************************************************************************)
C15_PutFailsOnceObjectReplaced ==
    [][/\ \A p \in Procs :
            (PutReturns(p) /\ cur[p].seen # 0) =>
                IF GenerationAt(objects, Name(cur[p].key)) # cur[p].seen
                THEN /\ last'[p].err # NilErr
                     /\ objects' = objects
                ELSE Succeeded(last'[p]) =>
                        objects'[Name(cur[p].key)].generation > cur[p].seen
       /\ \A n \in DOMAIN objects' :
            /\ objects'[n].generation < nextGen'
            /\ (n \notin DOMAIN objects \/ objects'[n] # objects[n])
               => objects'[n].generation >= nextGen]_vars

\* a Put found the object it had seen deleted and created again, and failed
C15_Witness ==
    \E p \in Procs :
        /\ last[p].op = "Put"
        /\ last[p].seen # 0
        /\ Conflicted(last[p])
        /\ Name(last[p].key) \in DOMAIN objects
        /\ objects[Name(last[p].key)].via = "Create"
        /\ objects[Name(last[p].key)].prev = "none"
        /\ objects[Name(last[p].key)].generation > last[p].seen
        /\ objects[Name(last[p].key)].val # last[p].val

(***************************************************************************)
(* C16: a Put whose Attrs found no object at the key, and whose key holds  *)
(* an object when the write is finalized (one another Put or a Create      *)
(* stored in between), returns an error and leaves that object as it is.   *)
(***************************************************************************)
C16_PutOnAbsentKeyNeverOverwrites ==
    [][\A p \in Procs :
          (/\ PutReturns(p)
           /\ cur[p].seen = 0
           /\ Name(cur[p].key) \in DOMAIN objects)
          => /\ last'[p].err # NilErr
             /\ objects' = objects]_vars

(***************************************************************************)
(* C17: a Create or a Put that returns an error stores nothing: the bucket *)
(* and the generation counter are as before the write, whether the failure *)
(* was in encoding, in io.Copy, of the precondition or in Close. A Create  *)
(* of a value that cannot be encoded returns in its first step, with no    *)
(* writer opened and no remote call made.                                  *)
(***************************************************************************)
C17_FailedWriteStoresNothing ==
    [][\A p \in Procs :
          /\ ((CreateReturns(p) \/ PutReturns(p)) /\ last'[p].err # NilErr)
             => /\ objects' = objects
                /\ nextGen' = nextGen
          /\ CreateReturns(p) => ~EncodeFailed(last'[p])
          /\ \A k \in Keys :
                Create(p, k, NaNVal) =>
                    /\ pc'[p] = "idle"
                    /\ EncodeFailed(last'[p])
                    /\ objects' = objects
                    /\ faulted' = faulted]_vars

\* a Put failed in io.Copy on a key whose object is the one its Attrs found
C17_Witness ==
    \E p \in Procs :
        /\ last[p].op = "Put"
        /\ last[p].seen # 0
        /\ TransportFailed(last[p])
        /\ Head(last[p].err).tag = "copy"
        /\ GenerationAt(objects, Name(last[p].key)) = last[p].seen
        /\ objects[Name(last[p].key)].val # last[p].val

(***************************************************************************)
(* C18: every object a Create or a Put of the store wrote carries the      *)
(* content type the store is configured with.                              *)
(***************************************************************************)
C18_WritesCarryConfiguredContentType ==
    \A n \in DOMAIN objects :
        objects[n].via \in {"Create", "Put"} =>
            objects[n].contentType = cs.contenttype

====
